---------------------------- MODULE Spec2Model ----------------------------
(***************************************************************************)
(* A model of main.py, the Stockfish chess puzzle generator.               *)
(*                                                                         *)
(* The program is four nested procedures:                                  *)
(*   generate_random_game   plays weighted-random legal moves              *)
(*   find_puzzle_position   generates positions and asks the engine        *)
(*     (analyze_for_mate)   for a short forced mate                        *)
(*   save_puzzle            writes the diagrams and the social-post draft  *)
(*   main                   the batch loop, engine shutdown and the index  *)
(*                                                                         *)
(* Each procedure has its own specification (SpecGen, SpecFinder,          *)
(* SpecSave, SpecMain) over one set of variables; the variables of the     *)
(* other procedures rest at their idle values.  The chess library and the  *)
(* engine are external: the rules engine is a small finite game that has   *)
(* the cases the code distinguishes (no legal move, a draw with legal      *)
(* moves left, fewer and more than five legal moves, captures, central     *)
(* squares), and the engine answers with any score and any line.           *)
(***************************************************************************)
EXTENDS Integers, Sequences, FiniteSets, TLC

VARIABLES
    \* generate_random_game
    gpc,            \* "loop" | "returned"
    max_moves,      \* the argument
    board,          \* chess.Board: [ply, key]
    moves_played,
    legalOK,        \* history: every move pushed was legal where it was pushed
    topOK,          \* history: every move pushed was among the min(5, n) best scored
    overOK,         \* history: no move was pushed on a game-over position
    \* find_puzzle_position
    fpc,            \* "loop" | "returned"
    max_attempts,   \* the argument (the attempt budget)
    attempt,        \* iterations of the for loop so far
    evals,          \* engine.analyse calls so far
    evalOver,       \* history: engine.analyse was called on a game-over position
    fret,           \* the returned triple
    finfo,          \* the engine's answer behind the returned triple
    \* save_puzzle
    spc,            \* "call" | "returned" | "raised"
    sarg,           \* the arguments and the faults of the environment
    sout,           \* the files written and the returned dict
    \* main
    pc,             \* "start" | "loop" | "quit" | "index" | "done" | "exit" | "crashed"
    puzzle_count,
    attempts,
    success,        \* results['success']
    failed,         \* results['failed']
    notfound,       \* history: iterations in which no puzzle was found
    finderCalls,    \* history: find_puzzle_position calls
    quits,          \* history: engine.quit calls
    index           \* puzzle_index.txt: the entries written

genVars == <<gpc, max_moves, board, moves_played, legalOK, topOK, overOK>>
finderVars == <<fpc, max_attempts, attempt, evals, evalOver, fret, finfo>>
saveVars == <<spc, sarg, sout>>
mainVars == <<pc, puzzle_count, attempts, success, failed, notfound, finderCalls,
              quits, index>>
vars == <<genVars, finderVars, saveVars, mainVars>>

None == "None"
WHITE == "White"
BLACK == "Black"

Min(a, b) == IF a < b THEN a ELSE b
Abs(x) == IF x < 0 THEN -x ELSE x

(***************************************************************************)
(* The rules engine (python-chess), as a finite game.  A position is its   *)
(* ply count and a key; the key decides the legal moves and whether the    *)
(* game is over.                                                           *)
(***************************************************************************)
NumKeys == 21
MaxLegal == 6
StartKey == 13

\* len(list(board.legal_moves))
NLegal(b) == b.key % (MaxLegal + 1)

\* list(board.legal_moves): a move is its index, its destination square and
\* the key of the position it leads to.
LegalMove(b, i) ==
    [id |-> i,
     to_square |-> (b.key * 11 + i * 9) % 64,
     next |-> (b.key * 3 + i * 5 + 1) % NumKeys]
LegalMoves(b) == [i \in 1..NLegal(b) |-> LegalMove(b, i)]

\* board.is_game_over(): no legal move (checkmate, stalemate), or a draw that
\* leaves legal moves.
IsGameOver(b) == NLegal(b) = 0 \/ b.key % 5 = 4

\* board.is_capture(move)
IsCapture(b, move) == (b.key + move.id) % 3 = 0

\* chess.square_file, chess.square_rank
SquareFile(sq) == sq % 8
SquareRank(sq) == sq \div 8

\* board.push(move)
Push(b, move) == [ply |-> b.ply + 1, key |-> move.next]

\* chess.Board()
StartBoard == [ply |-> 0, key |-> StartKey]

\* board.turn
Turn(b) == IF b.ply % 2 = 0 THEN WHITE ELSE BLACK

(***************************************************************************)
(* random.random(): scores are integers in units of 1/Unit, so that 1.0 is *)
(* Unit and 0.5 is HalfUnit.  One call of the scoring loop draws one       *)
(* stream of values, the j-th for the j-th legal move.  random() is a      *)
(* continuous draw: two moves never score the same, and the streams that   *)
(* would make them are left out.                                           *)
(***************************************************************************)
HalfUnit == 2
Unit == 2 * HalfUnit
NumStreams == 16
RandomValue(s, j) == (s + j * (1 + s \div Unit)) % Unit

TopSlice == 5
CenterPlies == 10

\* lines 84-94: the score of one legal move
MoveScore(b, played, move, s) ==
    RandomValue(s, move.id)
    + (IF IsCapture(b, move) THEN Unit ELSE 0)
    + (IF played < CenterPlies
          /\ SquareFile(move.to_square) \in {3, 4}
          /\ SquareRank(move.to_square) \in {3, 4}
       THEN HalfUnit ELSE 0)

\* lines 82-96: move_scores, a list of (score, move)
MoveScores(b, played, s) ==
    [i \in 1..NLegal(b) |->
        [score |-> MoveScore(b, played, LegalMove(b, i), s),
         move |-> LegalMove(b, i)]]

DistinctScores(ms) ==
    \A i, j \in 1..Len(ms) : i # j => ms[i].score # ms[j].score

\* the number of entries of ms that score higher than m
Rank(ms, m) == Cardinality({i \in 1..Len(ms) : ms[i].score > m.score})

\* list.sort(reverse=True) of entries with distinct scores: the greatest first,
\* so the entry with p - 1 entries above it comes p-th
SortReverse(ms) ==
    [p \in 1..Len(ms) |-> ms[CHOOSE i \in 1..Len(ms) : Rank(ms, ms[i]) = p - 1]]

\* line 100 with a slice one too long
TopMovesOffByOne(ms) == SubSeq(SortReverse(ms), 1, Min(TopSlice + 1, Len(ms)))

\* lines 99-100: move_scores.sort(reverse=True); move_scores[:min(5, len)]
TopMoves(ms) == SubSeq(SortReverse(ms), 1, Min(TopSlice, Len(ms)))

MaxMoves == 11

GenInit ==
    /\ gpc = "loop"
    /\ max_moves \in 0..MaxMoves
    /\ board = StartBoard
    /\ moves_played = 0
    /\ legalOK = TRUE /\ topOK = TRUE /\ overOK = TRUE

\* lines 74-104: one iteration of the while loop
GenStep ==
    /\ gpc = "loop"
    /\ ~IsGameOver(board) /\ moves_played < max_moves
    /\ NLegal(board) # 0
    /\ \E s \in 0..(NumStreams - 1) :
       \E move_scores \in {MoveScores(board, moves_played, s)} :
         /\ DistinctScores(move_scores)
         /\ \E top_moves \in {TopMoves(move_scores)} :
            \E c \in 1..Len(top_moves) :
              LET chosen_move == top_moves[c].move
              IN /\ board' = Push(board, chosen_move)
                 /\ legalOK' = (legalOK /\ \E i \in DOMAIN LegalMoves(board) :
                                             LegalMoves(board)[i] = chosen_move)
                 /\ topOK' = (topOK /\ Rank(move_scores, top_moves[c])
                                          < Min(TopSlice, NLegal(board)))
                 /\ overOK' = (overOK /\ ~IsGameOver(board))
    /\ moves_played' = moves_played + 1
    /\ UNCHANGED <<gpc, max_moves>>
    /\ UNCHANGED <<finderVars, saveVars, mainVars>>

\* lines 74, 78-79, 106: the loop ends and the board is returned
GenReturn ==
    /\ gpc = "loop"
    /\ IsGameOver(board) \/ moves_played >= max_moves \/ NLegal(board) = 0
    /\ gpc' = "returned"
    /\ UNCHANGED <<max_moves, board, moves_played, legalOK, topOK, overOK>>
    /\ UNCHANGED <<finderVars, saveVars, mainVars>>

GenIdle ==
    /\ gpc = "idle" /\ max_moves = 0 /\ board = StartBoard /\ moves_played = 0
    /\ legalOK = TRUE /\ topOK = TRUE /\ overOK = TRUE

(***************************************************************************)
(* The engine (engine.analyse).  A score is a PovScore: a value relative   *)
(* to the side to move, and that side.  A move of a principal variation    *)
(* is its place in the line and whether playing it gives checkmate.        *)
(***************************************************************************)
MaxEngineMate == 4
MaxPvLen == 7

MateScore(n) == [kind |-> "mate", n |-> n]
CpScore(n) == [kind |-> "cp", n |-> n]

\* PovScore.white(): the relative score, negated when Black is to move
ScoreWhite(score) ==
    IF score.turn = WHITE THEN score.relative
    ELSE [kind |-> score.relative.kind, n |-> -score.relative.n]

\* Score.is_mate(), Score.mate()
IsMate(sc) == sc.kind = "mate"
MateOf(sc) == sc.n

\* a line of len moves, the k-th of which gives checkmate (k = 0: none does)
\* (and its mover's move before that gives check)
PvLine(len, k) ==
    [i \in 1..len |-> [n |-> i, mates |-> (i = k), check |-> (i = k \/ i + 2 = k)]]

PvLines == {PvLine(len, k) : len \in 0..MaxPvLen, k \in 0..MaxPvLen}

\* what one engine.analyse(board, ...) call can do: raise, or return an info
\* dict whose "score" and "pv" may each be missing
\* (has_score, has_pv: whether info holds the key)
NoScore == [turn |-> WHITE, relative |-> CpScore(0)]
EngineRaises == [raises |-> TRUE, has_score |-> FALSE, score |-> NoScore,
                 has_pv |-> FALSE, pv |-> <<>>]
EngineOutcomes(b) ==
    {EngineRaises}
    \cup [raises : {FALSE}, has_score : {FALSE}, score : {NoScore},
          has_pv : {FALSE}, pv : {<<>>}]
    \cup [raises : {FALSE}, has_score : {FALSE}, score : {NoScore},
          has_pv : {TRUE}, pv : PvLines]
    \cup [raises : {FALSE}, has_score : {TRUE},
          score : {[turn |-> Turn(b), relative |-> CpScore(0)]}
                  \cup {[turn |-> Turn(b), relative |-> MateScore(n)] :
                            n \in (-MaxEngineMate)..MaxEngineMate},
          has_pv : {FALSE}, pv : {<<>>}]
    \cup [raises : {FALSE}, has_score : {TRUE},
          score : {[turn |-> Turn(b), relative |-> CpScore(0)]}
                  \cup {[turn |-> Turn(b), relative |-> MateScore(n)] :
                            n \in (-MaxEngineMate)..MaxEngineMate},
          has_pv : {TRUE}, pv : PvLines]

\* the ply of the line at which a forced mate of relative score n is given:
\* the mover's n-th move, or the opponent's |n|-th
MatePly(n) == IF n > 0 THEN 2 * n - 1 ELSE 2 * (-n)

\* an answer whose line agrees with its mate score: the whole mating line,
\* checkmate given by its last move and no other
Consistent(out) ==
    /\ ~out.raises /\ out.has_score /\ out.has_pv
    /\ IsMate(out.score.relative) /\ out.score.relative.n # 0
    /\ Len(out.pv) = MatePly(out.score.relative.n)
    /\ \A i \in 1..Len(out.pv) :
         out.pv[i].mates <=> (i = MatePly(out.score.relative.n))

MAX_MATE == 3

\* return None, None (none: both are None)
NoneNone == [none |-> TRUE, mate_in |-> 0, solution |-> <<>>]

\* line 120 without the slice
AnalyzeForMateWholePv(out, max_mate) ==
    IF out.raises THEN NoneNone
    ELSE IF out.has_score /\ IsMate(ScoreWhite(out.score))
         THEN LET mate_in == Abs(MateOf(ScoreWhite(out.score)))
                  pv == IF out.has_pv THEN out.pv ELSE <<>>
              IN IF mate_in <= max_mate /\ Len(pv) >= mate_in * 2 - 1
                 THEN [none |-> FALSE, mate_in |-> mate_in,
                       solution |-> pv]
                 ELSE NoneNone
         ELSE NoneNone

\* lines 108-124: analyze_for_mate, on the outcome of its engine.analyse call
AnalyzeForMate(out, max_mate) ==
    IF out.raises THEN NoneNone
    ELSE IF out.has_score /\ IsMate(ScoreWhite(out.score))
         THEN LET mate_in == Abs(MateOf(ScoreWhite(out.score)))
                  pv == IF out.has_pv THEN out.pv ELSE <<>>
              IN IF mate_in <= max_mate /\ Len(pv) >= mate_in * 2 - 1
                 THEN [none |-> FALSE, mate_in |-> mate_in,
                       solution |-> SubSeq(pv, 1, Min(mate_in * 2, Len(pv)))]
                 ELSE NoneNone
         ELSE NoneNone

\* line 139: mate_in and solution, the Python truth of an int or None and of
\* a list or None
MateAndSolution(r) == ~r.none /\ r.mate_in # 0 /\ r.solution # <<>>

\* return None, None, None
NotFound == [found |-> FALSE, board |-> StartBoard, mate_in |-> 0, solution |-> <<>>]

RandIntLo == 15
RandIntHi == 35

\* random.randint(15, 35): the least, the next and the greatest value
RandInts == {RandIntLo, RandIntLo + 1, RandIntHi}

\* what generate_random_game(max) returns: a position of at most max plies,
\* game-over if of fewer
GeneratedBoards(max) ==
    {b \in [ply : 0..max, key : 0..(NumKeys - 1)] : b.ply < max => IsGameOver(b)}

MaxBudget == 3

FinderInit ==
    /\ fpc = "loop"
    /\ max_attempts \in 0..MaxBudget
    /\ attempt = 0 /\ evals = 0 /\ evalOver = FALSE
    /\ fret = NotFound /\ finfo = EngineRaises

\* the guard of line 133 dropped: every generated position is analysed
SkipsGameOverNever(b) == FALSE

\* line 133: if board.is_game_over(): continue
SkipsGameOver(b) == IsGameOver(b)

\* lines 128-134: an iteration that generates a game-over position
FinderSkip ==
    /\ fpc = "loop" /\ attempt < max_attempts
    /\ \E max \in RandInts : \E b \in GeneratedBoards(max) : SkipsGameOver(b)
    /\ attempt' = attempt + 1
    /\ UNCHANGED <<fpc, max_attempts, evals, evalOver, fret, finfo>>
    /\ UNCHANGED <<genVars, saveVars, mainVars>>

\* lines 128-140: an iteration that analyses its position
FinderAnalyze ==
    /\ fpc = "loop" /\ attempt < max_attempts
    /\ \E max \in RandInts : \E b \in GeneratedBoards(max) :
         /\ ~SkipsGameOver(b)
         /\ evalOver' = (evalOver \/ IsGameOver(b))
         /\ \E out \in EngineOutcomes(b) :
            \E r \in {AnalyzeForMate(out, MAX_MATE)} :
              IF MateAndSolution(r)
              THEN /\ fpc' = "returned"
                   /\ fret' = [found |-> TRUE, board |-> b, mate_in |-> r.mate_in,
                               solution |-> r.solution]
                   /\ finfo' = out
              ELSE UNCHANGED <<fpc, fret, finfo>>
    /\ attempt' = attempt + 1
    /\ evals' = evals + 1
    /\ UNCHANGED max_attempts
    /\ UNCHANGED <<genVars, saveVars, mainVars>>

\* line 142: the budget is spent
FinderExhausted ==
    /\ fpc = "loop" /\ attempt >= max_attempts
    /\ fpc' = "returned"
    /\ fret' = NotFound
    /\ UNCHANGED <<max_attempts, attempt, evals, evalOver, finfo>>
    /\ UNCHANGED <<genVars, saveVars, mainVars>>

FinderIdle ==
    /\ fpc = "idle" /\ max_attempts = 0 /\ attempt = 0 /\ evals = 0
    /\ evalOver = FALSE /\ fret = NotFound /\ finfo = EngineRaises

(***************************************************************************)
(* save_puzzle.  The environment decides where, if anywhere, a call fails: *)
(* creating the directory, writing the record, writing the puzzle diagram, *)
(* at one of the four points of one step of the solution loop, or writing  *)
(* the post draft.  png: PNG export is on, cairosvg is there and converts. *)
(***************************************************************************)
NoFault == [at |-> "none", step |-> 0]
Faults(len) ==
    {NoFault}
    \cup [at : {"mkdir", "record", "puzzle_svg", "tweet"}, step : {0}]
    \cup [at : {"san", "push", "svg", "write"}, step : 1..len]

\* solve_board.san(move): the move and its suffix, # for checkmate, + for check
San(move) ==
    [n |-> move.n,
     suffix |-> IF move.mates THEN "#" ELSE IF move.check THEN "+" ELSE ""]

\* solve_board.push(move), with what is_checkmate() and is_check() then say
PushLine(b, move) ==
    [ply |-> b.ply + 1, key |-> b.key, is_checkmate |-> move.mates,
     is_check |-> move.check]

\* line 188: board.copy()
CopyBoard(b) == [ply |-> b.ply, key |-> b.key, is_checkmate |-> FALSE, is_check |-> FALSE]

\* lines 201-206: the marker of the step title
StepMarker(b) ==
    IF b.is_checkmate THEN " - Checkmate!" ELSE IF b.is_check THEN " +" ELSE ""

\* lines 190-227: one iteration of the solution loop, from the loop's state
StepBody(arg, i, st) ==
    IF st.broke THEN st
    ELSE IF arg.fault = [at |-> "san", step |-> i]
    THEN [st EXCEPT !.broke = TRUE]
    ELSE LET move == arg.solution[i]
             san_notation == San(move)
             move_color == Turn(st.solve_board)
             st1 == [st EXCEPT !.solution_san = Append(@, san_notation)]
         IN IF arg.fault = [at |-> "push", step |-> i]
            THEN [st1 EXCEPT !.broke = TRUE]
            ELSE LET pushed == PushLine(st.solve_board, move)
                     st2 == [st1 EXCEPT !.solve_board = pushed]
                 IN IF arg.fault.step = i /\ arg.fault.at \in {"svg", "write"}
                    THEN [st2 EXCEPT !.broke = TRUE]
                    ELSE [st2 EXCEPT
                            !.step_svgs = @ \cup {i},
                            !.step_pngs = IF arg.png THEN @ \cup {i} ELSE @,
                            !.titles = Append(@, [step |-> i,
                                                  color |-> move_color,
                                                  san |-> san_notation,
                                                  marker |-> StepMarker(pushed)])]

\* lines 187-227: the solution loop
StepLoop(arg) ==
    LET loop[i \in 0..Len(arg.solution)] ==
            IF i = 0
            THEN [broke |-> FALSE, solve_board |-> CopyBoard(arg.board),
                  solution_san |-> <<>>, step_svgs |-> {}, step_pngs |-> {},
                  titles |-> <<>>]
            ELSE StepBody(arg, i, loop[i - 1])
    IN loop[Len(arg.solution)]

\* line 255: move_color = "White" if i % 2 == 0 else "Black" (i from 0)
ThreadColor(arg, i) == IF i % 2 = 0 THEN WHITE ELSE BLACK

\* lines 253-264: the thread entries of the post draft
Thread(arg, solution_san) ==
    [k \in 1..Len(solution_san) |->
        [step |-> k,
         color |-> ThreadColor(arg, k - 1),
         san |-> solution_san[k],
         checkmate |-> (solution_san[k].suffix = "#"),
         attach |-> k]]

\* get_title_text(board, mate_in)
TitleText(b, mate_in) ==
    [color |-> Turn(b), mate_in |-> mate_in, kind |-> IF mate_in # 0 THEN "mate" ELSE "win"]

NoResult == [success |-> FALSE, mate_in |-> 0, solution_moves |-> 0, folder |-> 0]

\* lines 144-271: save_puzzle; folder is the number in the directory's name
SavePuzzle(arg) ==
    LET early == arg.fault.at \in {"mkdir", "record", "puzzle_svg"}
        st == IF early THEN [solution_san |-> <<>>, step_svgs |-> {},
                             step_pngs |-> {}, titles |-> <<>>]
              ELSE StepLoop(arg)
        raised == early \/ arg.fault.at = "tweet"
    IN [raised |-> raised,
        dir |-> IF arg.fault.at = "mkdir" THEN 0 ELSE arg.puzzle_number,
        record |-> arg.fault.at \notin {"mkdir", "record"},
        puzzle_svg |-> ~early,
        puzzle_png |-> (~early /\ arg.png),
        title |-> TitleText(arg.board, arg.mate_in),
        step_svgs |-> st.step_svgs,
        step_pngs |-> st.step_pngs,
        titles |-> st.titles,
        tweet |-> IF raised THEN <<>> ELSE Thread(arg, st.solution_san),
        result |-> IF raised THEN NoResult
                   ELSE [success |-> TRUE, mate_in |-> arg.mate_in,
                         solution_moves |-> Len(st.solution_san),
                         folder |-> arg.puzzle_number]]

\* the puzzles find_puzzle_position can return, for positions of one key
FoundPuzzles ==
    {[board |-> [ply |-> ply, key |-> StartKey], mate_in |-> n,
      solution |-> PvLine(len, k)] :
        ply \in {RandIntLo, RandIntLo + 1}, n \in 1..MAX_MATE,
        len \in 1..(2 * MAX_MATE), k \in 0..(2 * MAX_MATE)}

SaveArgs ==
    {[board |-> p.board, mate_in |-> p.mate_in, solution |-> p.solution,
      puzzle_number |-> num, png |-> png, fault |-> f] :
        p \in {q \in FoundPuzzles : Len(q.solution) \in {2 * q.mate_in - 1, 2 * q.mate_in}},
        num \in 1..2, png \in BOOLEAN, f \in Faults(2 * MAX_MATE)}

NoArg == [board |-> StartBoard, mate_in |-> 0, solution |-> <<>>,
          puzzle_number |-> 0, png |-> FALSE, fault |-> NoFault]

\* nothing written, nothing returned
NoOut ==
    [raised |-> FALSE, dir |-> 0, record |-> FALSE, puzzle_svg |-> FALSE,
     puzzle_png |-> FALSE, title |-> TitleText(StartBoard, 0), step_svgs |-> {},
     step_pngs |-> {}, titles |-> <<>>, tweet |-> <<>>, result |-> NoResult]

SaveInit ==
    /\ spc = "call"
    /\ sarg \in {a \in SaveArgs : a.fault.step <= Len(a.solution)}
    /\ sout = NoOut

\* save_puzzle returns
SaveReturns ==
    /\ spc = "call"
    /\ \E out \in {SavePuzzle(sarg)} :
         /\ ~out.raised
         /\ sout' = out
    /\ spc' = "returned"
    /\ UNCHANGED sarg
    /\ UNCHANGED <<genVars, finderVars, mainVars>>

\* save_puzzle raises
SaveRaises ==
    /\ spc = "call"
    /\ \E out \in {SavePuzzle(sarg)} :
         /\ out.raised
         /\ sout' = out
    /\ spc' = "raised"
    /\ UNCHANGED sarg
    /\ UNCHANGED <<genVars, finderVars, mainVars>>

SaveIdle == spc = "idle" /\ sarg = NoArg /\ sout = NoOut

(***************************************************************************)
(* main.  NUM_PUZZLES is 200 and the cap 100 attempts a puzzle in the      *)
(* source; the model runs the same loop for a smaller batch.  One          *)
(* iteration calls find_puzzle_position, which raises, finds nothing or    *)
(* returns a puzzle, and then save_puzzle on that puzzle.                  *)
(***************************************************************************)
NUM_PUZZLES == 2
AttemptsPerPuzzle == 3
MaxTotalAttempts == NUM_PUZZLES * AttemptsPerPuzzle

\* the puzzles and the save_puzzle faults of the batch
MainPuzzles ==
    {p \in FoundPuzzles :
        /\ p.mate_in <= 2 /\ p.board.ply = RandIntLo + p.mate_in
        /\ Len(p.solution) = 2 * p.mate_in - 1
        /\ p.solution[Len(p.solution)].mates}
MainFaults == {NoFault, [at |-> "record", step |-> 0], [at |-> "write", step |-> 1]}

MainInit ==
    /\ pc = "start" /\ puzzle_count = 0 /\ attempts = 0 /\ success = <<>>
    /\ failed = <<>> /\ notfound = 0 /\ finderCalls = 0 /\ quits = 0
    /\ index = <<>>

\* lines 281-284, 293-298: stockfish.exe is missing, or the engine does not start
StartupFails ==
    /\ pc = "start"
    /\ pc' = "exit"
    /\ UNCHANGED <<puzzle_count, attempts, success, failed, notfound, finderCalls,
                   quits, index>>
    /\ UNCHANGED <<genVars, finderVars, saveVars>>

\* lines 286-310: the engine starts
StartupOk ==
    /\ pc = "start"
    /\ pc' = "loop"
    /\ UNCHANGED <<puzzle_count, attempts, success, failed, notfound, finderCalls,
                   quits, index>>
    /\ UNCHANGED <<genVars, finderVars, saveVars>>

\* line 312: the condition of the while loop
LoopCondition == puzzle_count < NUM_PUZZLES /\ attempts < MaxTotalAttempts

\* an exception of find_puzzle_position that ends the loop
IterFinderRaisesEscapes ==
    /\ pc = "loop" /\ LoopCondition
    /\ attempts' = attempts + 1
    /\ finderCalls' = finderCalls + 1
    /\ pc' = "crashed"
    /\ UNCHANGED <<puzzle_count, success, failed, notfound, quits, index>>
    /\ UNCHANGED <<genVars, finderVars, saveVars>>

\* an exception of find_puzzle_position that is caught and not recorded
IterFinderRaisesUnrecorded ==
    /\ pc = "loop" /\ LoopCondition
    /\ attempts' = attempts + 1
    /\ finderCalls' = finderCalls + 1
    /\ UNCHANGED <<pc, puzzle_count, success, failed, notfound, quits, index>>
    /\ UNCHANGED <<genVars, finderVars, saveVars>>

\* lines 312-319, 354-356: find_puzzle_position raises
IterFinderRaises ==
    /\ pc = "loop" /\ LoopCondition
    /\ attempts' = attempts + 1
    /\ finderCalls' = finderCalls + 1
    /\ failed' = Append(failed, [error |-> "find_puzzle_position"])
    /\ UNCHANGED <<pc, puzzle_count, success, notfound, quits, index>>
    /\ UNCHANGED <<genVars, finderVars, saveVars>>

\* lines 312-321, 351-352: no puzzle found
IterNotFound ==
    /\ pc = "loop" /\ LoopCondition
    /\ attempts' = attempts + 1
    /\ finderCalls' = finderCalls + 1
    /\ notfound' = notfound + 1
    /\ UNCHANGED <<pc, puzzle_count, success, failed, quits, index>>
    /\ UNCHANGED <<genVars, finderVars, saveVars>>

\* lines 312-350, 354-356: a puzzle is found and packaged; save_puzzle returns
\* or raises
IterFound ==
    /\ pc = "loop" /\ LoopCondition
    /\ attempts' = attempts + 1
    /\ finderCalls' = finderCalls + 1
    /\ puzzle_count' = puzzle_count + 1
    /\ \E p \in MainPuzzles, f \in MainFaults :
       \E out \in {SavePuzzle([board |-> p.board, mate_in |-> p.mate_in,
                               solution |-> p.solution,
                               puzzle_number |-> puzzle_count + 1,
                               png |-> TRUE, fault |-> f])} :
         IF out.raised
         THEN /\ failed' = Append(failed, [error |-> "save_puzzle"])
              /\ UNCHANGED success
         ELSE /\ success' = Append(success, out.result)
              /\ UNCHANGED failed
    /\ UNCHANGED <<pc, notfound, quits, index>>
    /\ UNCHANGED <<genVars, finderVars, saveVars>>

\* line 312: the loop ends
LoopExit ==
    /\ pc = "loop" /\ ~LoopCondition
    /\ pc' = "quit"
    /\ UNCHANGED <<puzzle_count, attempts, success, failed, notfound, finderCalls,
                   quits, index>>
    /\ UNCHANGED <<genVars, finderVars, saveVars>>

\* line 359: engine.quit(), which returns or raises
EngineQuit ==
    /\ pc = "quit"
    /\ quits' = quits + 1
    /\ pc' \in {"index", "crashed"}
    /\ UNCHANGED <<puzzle_count, attempts, success, failed, notfound, finderCalls,
                   index>>
    /\ UNCHANGED <<genVars, finderVars, saveVars>>

\* lines 386-390: the entries of puzzle_index.txt
IndexEntries(results) ==
    [i \in 1..Len(results) |->
        [day |-> i, mate_in |-> results[i].mate_in,
         solution_moves |-> results[i].solution_moves,
         folder |-> results[i].folder]]

\* lines 375-392: the index is written
WriteIndex ==
    /\ pc = "index"
    /\ index' = IndexEntries(success)
    /\ pc' = "done"
    /\ UNCHANGED <<puzzle_count, attempts, success, failed, notfound, finderCalls,
                   quits>>
    /\ UNCHANGED <<genVars, finderVars, saveVars>>

\* line 376: the index file cannot be opened
WriteIndexFails ==
    /\ pc = "index"
    /\ pc' = "crashed"
    /\ UNCHANGED <<puzzle_count, attempts, success, failed, notfound, finderCalls,
                   quits, index>>
    /\ UNCHANGED <<genVars, finderVars, saveVars>>

MainIdle ==
    /\ pc = "idle" /\ puzzle_count = 0 /\ attempts = 0 /\ success = <<>>
    /\ failed = <<>> /\ notfound = 0 /\ finderCalls = 0 /\ quits = 0
    /\ index = <<>>

InitGen == GenInit /\ FinderIdle /\ SaveIdle /\ MainIdle
NextGen == GenStep \/ GenReturn
SpecGen == InitGen /\ [][NextGen]_vars

InitFinder == GenIdle /\ FinderInit /\ SaveIdle /\ MainIdle
NextFinder == FinderSkip \/ FinderAnalyze \/ FinderExhausted
SpecFinder == InitFinder /\ [][NextFinder]_vars

InitSave == GenIdle /\ FinderIdle /\ SaveInit /\ MainIdle
NextSave == SaveReturns \/ SaveRaises
SpecSave == InitSave /\ [][NextSave]_vars

InitMain == GenIdle /\ FinderIdle /\ SaveIdle /\ MainInit
NextMain ==
    \/ StartupFails \/ StartupOk
    \/ IterFinderRaises \/ IterNotFound \/ IterFound
    \/ LoopExit \/ EngineQuit \/ WriteIndex \/ WriteIndexFails
SpecMain == InitMain /\ [][NextMain]_vars

(***************************************************************************)
(* The claims.                                                             *)
(***************************************************************************)

\* the first move of a line that gives checkmate, 0 if none does
MatingPly(line) ==
    IF \E j \in 1..Len(line) : line[j].mates
    THEN CHOOSE j \in 1..Len(line) :
             line[j].mates /\ \A i \in 1..(j - 1) : ~line[i].mates
    ELSE 0

\* the side that plays the j-th move of a line from position b
Mover(b, j) == Turn([ply |-> b.ply + j - 1])

\* C1: every puzzle find_puzzle_position returns, the engine's line agreeing
\* with its mate score, has a line that reaches checkmate, the mating move
\* played by the side to move in the returned position, at its N-th move or
\* before (N the reported mate distance).
C1_LineMatesForSideToMove ==
    (fpc = "returned" /\ fret.found /\ Consistent(finfo)) =>
        LET j == MatingPly(fret.solution)
        IN /\ j # 0
           /\ Mover(fret.board, j) = Turn(fret.board)
           /\ (j + 1) \div 2 <= fret.mate_in

\* C2: when main's loop has ended, the success list holds NUM_PUZZLES
\* entries or the attempt counter is at the cap, and the counter never
\* exceeds the cap.
C2_LoopEndsAtTargetOrCap ==
    /\ attempts <= MaxTotalAttempts
    /\ pc \in {"quit", "index", "done"} =>
          (Len(success) = NUM_PUZZLES \/ attempts = MaxTotalAttempts)

\* C3: every entry of the index carries, as its Day ordinal, the puzzle number
\* that named its folder.
C3_IndexOrdinalIsFolderNumber ==
    pc = "done" => \A i \in 1..Len(index) : index[i].day = index[i].folder

\* C4: once the engine has started, engine.quit is called exactly once: no
\* find_puzzle_position call follows it, the index is written only after it,
\* and every run that leaves the loop or ends has called it, whatever was
\* raised inside the iterations.
C4_QuitExactlyOnce ==
    /\ [](quits <= 1)
    /\ [](pc \in {"index", "done"} => quits = 1)
    /\ [](pc = "crashed" => quits = 1)
    /\ [](pc \in {"start", "loop", "quit", "exit"} => quits = 0)
    /\ [][/\ finderCalls' # finderCalls => (quits = 0 /\ quits' = 0)
          /\ (pc = "index" /\ pc' = "done") => (quits = 1 /\ quits' = 1)
          /\ (pc = "loop" /\ pc' # "loop") => pc' = "quit"]_vars

\* a run that started the engine, raised in an iteration, saved a puzzle,
\* called engine.quit and wrote the index
C4_Witness ==
    pc = "done" /\ quits = 1 /\ Len(failed) >= 1 /\ Len(success) >= 1
    /\ finderCalls >= 2

\* C5: the step count save_puzzle returns is the number of solution-step
\* diagrams it wrote.
C5_StepCountIsDiagramsWritten ==
    spc = "returned" =>
        sout.result.solution_moves = Cardinality(sout.step_svgs)

\* C6: every puzzle find_puzzle_position returns has a mate distance N with
\* 1 <= N <= 3 and a line of 2N - 1 or 2N moves, whatever the engine answered.
C6_MateDistanceAndLineLength ==
    (fpc = "returned" /\ fret.found) =>
        /\ 1 <= fret.mate_in /\ fret.mate_in <= MAX_MATE
        /\ Len(fret.solution) \in {2 * fret.mate_in - 1, 2 * fret.mate_in}

\* a puzzle returned from a line longer than 2N moves, and from a mate score
\* for the side not to move
C6_Witness ==
    /\ fpc = "returned" /\ fret.found
    /\ Len(finfo.pv) > 2 * fret.mate_in
    /\ finfo.score.relative.n < 0
    /\ fret.mate_in = MAX_MATE

C8_IterationErrorsAreRecorded ==
    /\ [](pc \in {"loop", "quit", "index", "done"} =>
            attempts = Len(success) + Len(failed) + notfound)
    /\ [][attempts' # attempts =>
            /\ pc' = "loop"
            /\ attempts' = attempts + 1
            /\ \/ /\ Len(failed') = Len(failed) + 1
                  /\ success' = success /\ notfound' = notfound
               \/ /\ failed' = failed
                  /\ Len(success') + notfound' = Len(success) + notfound + 1]_vars

\* a loop boundary after an exception of each kind, a saved puzzle and an
\* iteration that found nothing
C8_Witness ==
    /\ pc = "loop" /\ notfound >= 1 /\ Len(success) >= 1
    /\ \E i, j \in 1..Len(failed) :
         failed[i].error = "save_puzzle" /\ failed[j].error = "find_puzzle_position"

\* C9: generate_random_game(max_moves) plays at most max_moves moves from
\* the starting position, each legal where it was played and among the
\* min(5, n) best scored of the n legal moves, none on a game-over position,
\* and a game it returns short of max_moves is over.
C9_GeneratedGame ==
    /\ moves_played <= max_moves
    /\ board.ply = moves_played
    /\ legalOK /\ topOK /\ overOK
    /\ (gpc = "returned" /\ moves_played < max_moves) => IsGameOver(board)

\* a game returned early, after moves, because it was over
C9_Witness ==
    /\ gpc = "returned" /\ 2 <= moves_played /\ moves_played < max_moves
    /\ IsGameOver(board) /\ NLegal(board) > 0

\* C10: every thread entry of the post draft names the side that played its
\* move.
C10_ThreadNamesTheMover ==
    spc = "returned" =>
        \A k \in 1..Len(sout.tweet) : sout.tweet[k].color = Mover(sarg.board, k)

====
